---- MODULE Spec2Model ----
(***************************************************************************)
(* Model of the request-dispatch core of the Sleeper SDK                   *)
(* (src/src/http-client.ts: class HttpClient): the rate pacer              *)
(* (enforceRateLimit), the error classifier (response interceptor) and     *)
(* the retry loop (executeWithRetry).                                      *)
(*                                                                         *)
(* Time is the value of Date.now() in milliseconds.  A timer started by    *)
(* sleep(ms) fires at or after its deadline, never before it; how late it  *)
(* fires is not determined.  Every continuation between two awaits is one  *)
(* atomic step (JavaScript runs a continuation to its next await without   *)
(* preemption).                                                            *)
(***************************************************************************)
EXTENDS Integers, Sequences, FiniteSets, TLC

\* ------------------------------------------------------------------------
\* Bounds of the model
\* ------------------------------------------------------------------------
NumReq == 3            \* request calls (get/post/put/delete) made in one run
MaxRetries == 2        \* largest configured retries value explored
StartTime == 100       \* Date.now() when the first call can be made
MaxTime == 220         \* the clock stops advancing here
ClockStep == 30        \* granularity of the clock
MaxSends == 4
MaxParams == 3
MaxPlayers == 3
MaxLimit == 2
MaxTeams == 3
MaxRounds == 3          \* attempts that all the calls of one run may need

\* ------------------------------------------------------------------------
\* Program constants
\* ------------------------------------------------------------------------
minRequestInterval == 60
DefaultRetries == 3
DefaultRetryDelay == 1000
DefaultTimeout == 10000
DefaultBaseURL == "https://api.sleeper.app/v1"

RateLimitMessage == "Rate limit exceeded. Please slow down your requests."
NotFoundMessage == "Resource not found."
ServerErrorMessage == "Sleeper API server error. Please try again later."
UnknownErrorMessage == "Unknown error"

\* ------------------------------------------------------------------------
\* Inputs
\* ------------------------------------------------------------------------
Req == 1..NumReq
Clients == {"A", "B"}
\* retries is not validated by the constructor: a negative value is accepted
RetriesChoices == (-1)..MaxRetries
RetryDelayChoices == {0, 30}

\* `undefined`
Undefined == [kind |-> "undefined"]
NoData == "undefined"

\* the body the server sends in answer to attempt att of call r
Body(r, att) == <<r, att>>

\* What the network layer (axios) hands to the response interceptors for one
\* attempt.  ok: a 2xx response.  Otherwise an error object: response says
\* whether error.response exists, status/data are error.response.status and
\* error.response.data, message is error.message ("" stands for a missing or
\* empty message).

RawSuccess(b) ==
  [ok |-> TRUE, response |-> TRUE, status |-> 200, message |-> "", data |-> b]

RawNoResponse(m) ==
  [ok |-> FALSE, response |-> FALSE, status |-> 0, message |-> m, data |-> NoData]

RawStatus(s, m, d) ==
  [ok |-> FALSE, response |-> TRUE, status |-> s, message |-> m, data |-> d]

\* failures the server / network produces in the dispatch model
RawFailures ==
  { RawNoResponse("timeout of 10000ms exceeded"),
    RawStatus(400, "Request failed with status code 400", "e400"),
    RawStatus(429, "Request failed with status code 429", "e429"),
    RawStatus(503, "Request failed with status code 503", "e503") }

\* inputs of the classifier when it is checked on its own
ClassifierStatuses == {304, 400, 401, 404, 428, 429, 430, 499, 500, 501, 503}
ClassifierMessages == {"", "Network Error", "Request failed"}
ClassifierData == {"body", NoData}
RawErrorInputs ==
  { RawNoResponse(m) : m \in ClassifierMessages }
  \cup { RawStatus(s, m, d) : s \in ClassifierStatuses, m \in ClassifierMessages,
                              d \in ClassifierData }

VARIABLES
  now,              \* Date.now()
  retries,          \* HttpClient.retries, per client instance
  retryDelay,       \* HttpClient.retryDelay, per client instance
  lastRequestTime,  \* HttpClient.lastRequestTime, per client instance
  client,           \* the instance each request call is made on
  pc,               \* where each request call is
  attempt,          \* executeWithRetry: loop variable attempt
  lastError,        \* executeWithRetry: local lastError
  wakeAt,           \* deadline of the timer the call sleeps on
  seenLast,         \* lastRequestTime as read by the call's latest pacing check
  result,           \* what the call resolved with / rejected with
  outcomes,         \* history: what the network answered to each attempt
  backoffs,         \* history: the delays of the call's backoff sleeps
  sendLog,          \* history: every attempt handed to the network
  overlapped,       \* history: a call was issued while another was pending
  rawError,         \* classifier on its own: the error handed to it
  sleeperError,     \* classifier on its own: the SleeperError it rejected with
  sdkConfig,        \* the config object passed to new SleeperSDK(config)
  axiosConfig,      \* baseURL and timeout given to axios.create
  shownConfig,      \* what getClientConfig() returned
  operation,        \* the SDK / service method the calls of the run belong to
  opResult,         \* what that method resolved with / rejected with
  weekRange,        \* startWeek and endWeek given to getMatchupsForWeekRange
  params,           \* the entries of the object given to buildQueryString
  queryString,      \* what buildQueryString returned
  playerQuery,      \* a limit-taking player filter, its arguments, and the
                    \* players getAllPlayers resolved with
  playerResult,     \* what the filter returned
  draftState,       \* what getDraft and getDraftPicks resolved with
  currentPick       \* what getCurrentPick returned

coreVars == <<now, retries, retryDelay, lastRequestTime, client, pc, attempt,
              lastError, wakeAt, seenLast, result, outcomes, backoffs,
              sendLog, overlapped>>
configVars == <<sdkConfig, axiosConfig, shownConfig>>
serviceVars == <<operation, opResult, weekRange>>
queryVars == <<params, queryString>>
playerVars == <<playerQuery, playerResult>>
draftVars == <<draftState, currentPick>>
accessorVars == <<playerVars, draftVars>>
pureVars ==
  <<rawError, sleeperError, configVars, serviceVars, queryVars, accessorVars>>
vars == <<coreVars, pureVars>>

\* ------------------------------------------------------------------------
\* Construction and configuration
\* ------------------------------------------------------------------------
\* an optional field of a config object: omitted, or present with a value
Opt(S) == {<<>>} \cup {<<x>> : x \in S}

\* destructuring default: `field = d`
OrDefault(o, d) == IF o = <<>> THEN d ELSE o[1]

\* configs a SleeperSDK is constructed with
SDKConfigs ==
  [baseURL : Opt({"https://proxy.example/v1"}),
   timeout : Opt({5000, DefaultTimeout}),
   retries : Opt(RetriesChoices \cup {DefaultRetries}),
   retryDelay : Opt(RetryDelayChoices \cup {DefaultRetryDelay})]

\* new HttpClient(config): the values the client uses
HttpClientConstructor(config) ==
  [baseURL |-> OrDefault(config.baseURL, DefaultBaseURL),
   timeout |-> OrDefault(config.timeout, DefaultTimeout),
   retries |-> OrDefault(config.retries, DefaultRetries),
   retryDelay |-> OrDefault(config.retryDelay, DefaultRetryDelay)]

\* SleeperSDK.getClientConfig()
getClientConfig ==
  [baseURL |-> DefaultBaseURL,
   timeout |-> DefaultTimeout,
   retries |-> DefaultRetries,
   retryDelay |-> DefaultRetryDelay]

\* ------------------------------------------------------------------------
\* Error classifier: the response interceptor's rejection handler
\* ------------------------------------------------------------------------
ClassifyServerBoundary(error) ==
  [kind |-> "error",
   status |-> IF error.response /\ error.status # 0 THEN error.status ELSE 0,
   message |->
     IF error.response /\ error.status = 429 THEN RateLimitMessage
     ELSE IF error.response /\ error.status = 404 THEN NotFoundMessage
     ELSE IF error.response /\ error.status > 500 THEN ServerErrorMessage
     ELSE IF error.message # "" THEN error.message ELSE UnknownErrorMessage,
   details |-> IF error.response THEN error.data ELSE NoData]

ClassifyDetailsDropped(error) ==
  [kind |-> "error",
   status |-> IF error.response /\ error.status # 0 THEN error.status ELSE 0,
   message |->
     IF error.response /\ error.status = 429 THEN RateLimitMessage
     ELSE IF error.response /\ error.status = 404 THEN NotFoundMessage
     ELSE IF error.response /\ error.status >= 500 THEN ServerErrorMessage
     ELSE IF error.message # "" THEN error.message ELSE UnknownErrorMessage,
   details |-> IF error.response /\ error.status >= 500 THEN error.data ELSE NoData]

Classify(error) ==
  [kind |-> "error",
   status |-> IF error.response /\ error.status # 0 THEN error.status ELSE 0,
   message |->
     IF error.response /\ error.status = 429 THEN RateLimitMessage
     ELSE IF error.response /\ error.status = 404 THEN NotFoundMessage
     ELSE IF error.response /\ error.status >= 500 THEN ServerErrorMessage
     ELSE IF error.message # "" THEN error.message ELSE UnknownErrorMessage,
   details |-> IF error.response THEN error.data ELSE NoData]

\* ------------------------------------------------------------------------
\* Rate pacer: enforceRateLimit
\* ------------------------------------------------------------------------
\* timeSinceLastRequest < this.minRequestInterval
MustWaitHalfInterval(timeSinceLastRequest) ==
  timeSinceLastRequest < minRequestInterval \div 2

MustWait(timeSinceLastRequest) == timeSinceLastRequest < minRequestInterval

\* const delay = this.minRequestInterval - timeSinceLastRequest
PacingDelayHalved(timeSinceLastRequest) ==
  (minRequestInterval - timeSinceLastRequest) \div 2

PacingDelay(timeSinceLastRequest) == minRequestInterval - timeSinceLastRequest

\* ------------------------------------------------------------------------
\* Retry controller: executeWithRetry
\* ------------------------------------------------------------------------
\* for (...; attempt <= this.retries; ...)
LoopContinues(c, att) == att <= retries[c]

\* lastError.status >= 400 && lastError.status < 500 && lastError.status !== 429
IsTerminalStatusOffByOne(status) == status > 400 /\ status < 500 /\ status # 429

IsTerminalStatusNo429(status) == status >= 400 /\ status < 500

IsTerminalStatusNoLower(status) == status < 500 /\ status # 429

IsTerminalStatus(status) == status >= 400 /\ status < 500 /\ status # 429

\* attempt === this.retries
IsLastAttemptEarly(c, att) == att + 1 >= retries[c]

IsLastAttempt(c, att) == att = retries[c]

\* this.retryDelay * Math.pow(2, attempt)
BackoffDelaySwapped(c, att) == retryDelay[c] * (att ^ 2)

BackoffDelay(c, att) == retryDelay[c] * (2 ^ att)

\* lastError = error as SleeperError
CaughtErrorKeepFirst(previous, error) ==
  IF previous = Undefined THEN error ELSE previous

CaughtError(previous, error) == error

\* return response.data
ResponseDataFirstBody(response) == <<response.data[1], 0>>

ResponseData(response) == response.data

Resolved(value) == [kind |-> "value", value |-> value]
Thrown(error) == [kind |-> "thrown", error |-> error]
NoResult == [kind |-> "none"]

\* no player filter and no getCurrentPick has been called
NoQuery == [method |-> "none"]
NoDraft == [status |-> "none"]
AccessorsIdle ==
  /\ playerQuery = NoQuery
  /\ playerResult = Undefined
  /\ draftState = NoDraft
  /\ currentPick = Undefined

\* (startWeek, endWeek) arguments: empty ranges, one week, several weeks
NoWeeks == [startWeek |-> 1, endWeek |-> 0]
WeekStarts == {2}
WeekRanges ==
  { range \in [startWeek : WeekStarts, endWeek : 0..(NumReq + 1)] :
      range.endWeek - range.startWeek + 1 <= NumReq }

Pending(r) == pc[r] \in {"pacing", "inflight", "backoff"}
Settled(r) == pc[r] \in {"resolved", "rejected"}

\* the instance whose lastRequestTime field call r reads and writes:
\* this.lastRequestTime, a field of the HttpClient the call was made on
PacingStateShared(r) == "A"

PacingState(r) == client[r]

\* sleep(ms) is a promise resolved by setTimeout: a sleeping call holds
\* nothing, and the continuation of call r runs whenever it is ready.  (A
\* sleep that spins until its deadline would let nothing run meanwhile.)
RunnableUnlessSleeper(r) ==
  \A q \in Req \ {r} : pc[q] \notin {"pacing", "backoff"}

Runnable(r) == TRUE

\* setTimeout(resolve, ms): the timer of call r fires ms after it was set,
\* or later, never earlier
TimerDueNever(r) == FALSE

TimerDueAtOnce(r) == TRUE

TimerDue(r) == now >= wakeAt[r]

\* the attempt is handed to the network: the request interceptor returns config
Send(r, att, seen) ==
  sendLog' = Append(sendLog, [req |-> r, att |-> att, at |-> now, seen |-> seen])

\* the loop counter kept in a field of the instance instead of a local
enforceRateLimitSharedAttempt(r, att) ==
  LET c == PacingState(r)
      timeSinceLastRequest == now - lastRequestTime[c]
  IN  /\ attempt' = [q \in Req |-> IF client[q] = client[r] THEN att ELSE attempt[q]]
      /\ seenLast' = [seenLast EXCEPT ![r] = lastRequestTime[c]]
      /\ result' = result
      /\ IF MustWait(timeSinceLastRequest)
         THEN /\ pc' = [pc EXCEPT ![r] = "pacing"]
              /\ wakeAt' = [wakeAt EXCEPT ![r] = now + PacingDelay(timeSinceLastRequest)]
              /\ UNCHANGED <<lastRequestTime, sendLog>>
         ELSE /\ pc' = [pc EXCEPT ![r] = "inflight"]
              /\ lastRequestTime' = [lastRequestTime EXCEPT ![c] = now]
              /\ Send(r, att, lastRequestTime[c])
              /\ UNCHANGED wakeAt

\* a retry that is handed to the network without passing the pacer
enforceRateLimitFirstOnly(r, att) ==
  LET c == PacingState(r)
      timeSinceLastRequest == now - lastRequestTime[c]
  IN  /\ attempt' = [attempt EXCEPT ![r] = att]
      /\ result' = result
      /\ IF att = 0
         THEN /\ seenLast' = [seenLast EXCEPT ![r] = lastRequestTime[c]]
              /\ IF MustWait(timeSinceLastRequest)
                 THEN /\ pc' = [pc EXCEPT ![r] = "pacing"]
                      /\ wakeAt' = [wakeAt EXCEPT ![r] = now + PacingDelay(timeSinceLastRequest)]
                      /\ UNCHANGED <<lastRequestTime, sendLog>>
                 ELSE /\ pc' = [pc EXCEPT ![r] = "inflight"]
                      /\ lastRequestTime' = [lastRequestTime EXCEPT ![c] = now]
                      /\ Send(r, att, lastRequestTime[c])
                      /\ UNCHANGED wakeAt
         ELSE /\ pc' = [pc EXCEPT ![r] = "inflight"]
              /\ Send(r, att, seenLast[r])
              /\ UNCHANGED <<lastRequestTime, wakeAt, seenLast>>

\* enforceRateLimit, from its first line to its first await (or to its end
\* when it does not wait), followed by the dispatch when it does not wait
enforceRateLimit(r, att) ==
  LET c == PacingState(r)
      timeSinceLastRequest == now - lastRequestTime[c]
  IN  /\ attempt' = [attempt EXCEPT ![r] = att]
      /\ seenLast' = [seenLast EXCEPT ![r] = lastRequestTime[c]]
      /\ result' = result
      /\ IF MustWait(timeSinceLastRequest)
         THEN /\ pc' = [pc EXCEPT ![r] = "pacing"]
              /\ wakeAt' = [wakeAt EXCEPT ![r] = now + PacingDelay(timeSinceLastRequest)]
              /\ UNCHANGED <<lastRequestTime, sendLog>>
         ELSE /\ pc' = [pc EXCEPT ![r] = "inflight"]
              /\ lastRequestTime' = [lastRequestTime EXCEPT ![c] = now]
              /\ Send(r, att, lastRequestTime[c])
              /\ UNCHANGED wakeAt

\* one evaluation of the for loop's condition with attempt = att, and what
\* follows it up to the next await; err is the value of lastError
LoopIteration(r, att, err) ==
  IF LoopContinues(client[r], att)
  THEN enforceRateLimit(r, att)
  ELSE \* throw lastError!  (after the loop)
       /\ pc' = [pc EXCEPT ![r] = "rejected"]
       /\ result' = [result EXCEPT ![r] = Thrown(err)]
       /\ attempt' = [attempt EXCEPT ![r] = att]
       /\ UNCHANGED <<lastRequestTime, sendLog, wakeAt, seenLast>>

\* number of attempts call q has handed to the network
Sent(q) == Len(SelectSeq(sendLog, LAMBDA e : e.req = q))

\* bound of a run: the attempts call q has used (settled) or may still use
\* (pending)
Budget(q) ==
  IF Settled(q) THEN Sent(q)
  ELSE IF Pending(q) THEN IF retries[client[q]] + 1 > Sent(q)
                          THEN retries[client[q]] + 1 ELSE Sent(q)
  ELSE 0

RECURSIVE BudgetUpTo(_)
BudgetUpTo(n) == IF n = 0 THEN 0 ELSE Budget(n) + BudgetUpTo(n - 1)

\* get / post / put / delete: the call enters executeWithRetry.  Calls are
\* numbered in the order they are made, and a call is made only while the
\* attempts it may need fit in MaxSends.
get(r) ==
  /\ pc[r] = "idle"
  /\ Runnable(r)
  /\ \A q \in Req : q < r => pc[q] # "idle"
  /\ BudgetUpTo(NumReq) + retries[client[r]] + 1 <= MaxSends
  /\ lastError' = [lastError EXCEPT ![r] = Undefined]
  /\ overlapped' = [overlapped EXCEPT ![client[r]] =
                      @ \/ \E q \in Req : q # r /\ client[q] = client[r] /\ Pending(q)]
  /\ LoopIteration(r, 0, Undefined)
  /\ UNCHANGED <<now, retries, retryDelay, client, outcomes, backoffs, pureVars>>

\* enforceRateLimit after its sleep: this.lastRequestTime = Date.now()
PacingResume(r) ==
  /\ pc[r] = "pacing"
  /\ TimerDue(r)
  /\ Runnable(r)
  /\ pc' = [pc EXCEPT ![r] = "inflight"]
  /\ lastRequestTime' = [lastRequestTime EXCEPT ![PacingState(r)] = now]
  /\ Send(r, attempt[r], seenLast[r])
  /\ UNCHANGED <<now, retries, retryDelay, client, attempt, lastError, wakeAt,
                 seenLast, result, outcomes, backoffs, overlapped, pureVars>>

\* const response = await request(); return response.data
RespondSuccess(r) ==
  /\ pc[r] = "inflight"
  /\ Runnable(r)
  /\ outcomes' = [outcomes EXCEPT ![r] = Append(@, RawSuccess(Body(r, attempt[r])))]
  /\ pc' = [pc EXCEPT ![r] = "resolved"]
  /\ result' = [result EXCEPT ![r] = Resolved(ResponseData(RawSuccess(Body(r, attempt[r]))))]
  /\ UNCHANGED <<now, retries, retryDelay, lastRequestTime, client, attempt,
                 lastError, wakeAt, seenLast, backoffs, sendLog, overlapped,
                 pureVars>>

\* the attempt fails: response interceptor, then the catch block
RespondFailure(r, raw) ==
  /\ pc[r] = "inflight"
  /\ Runnable(r)
  /\ outcomes' = [outcomes EXCEPT ![r] = Append(@, raw)]
  /\ LET c == client[r]
         caught == CaughtError(lastError[r], Classify(raw))
     IN  /\ lastError' = [lastError EXCEPT ![r] = caught]
         /\ IF IsTerminalStatus(caught.status) \/ IsLastAttempt(c, attempt[r])
            THEN /\ pc' = [pc EXCEPT ![r] = "rejected"]
                 /\ result' = [result EXCEPT ![r] = Thrown(caught)]
                 /\ UNCHANGED <<wakeAt, backoffs>>
            ELSE /\ pc' = [pc EXCEPT ![r] = "backoff"]
                 /\ wakeAt' = [wakeAt EXCEPT ![r] = now + BackoffDelay(c, attempt[r])]
                 /\ backoffs' = [backoffs EXCEPT ![r] = Append(@, BackoffDelay(c, attempt[r]))]
                 /\ UNCHANGED result
  /\ UNCHANGED <<now, retries, retryDelay, lastRequestTime, client, attempt,
                 seenLast, sendLog, overlapped, pureVars>>

\* the backoff sleep ends: attempt++ and the next iteration of the loop
BackoffResume(r) ==
  /\ pc[r] = "backoff"
  /\ TimerDue(r)
  /\ Runnable(r)
  /\ LoopIteration(r, attempt[r] + 1, lastError[r])
  /\ UNCHANGED <<now, retries, retryDelay, client, lastError, outcomes,
                 backoffs, overlapped, pureVars>>

\* the clock advances
Tick ==
  /\ now < MaxTime
  /\ now' = now + ClockStep
  /\ UNCHANGED <<retries, retryDelay, lastRequestTime, client, pc, attempt,
                 lastError, wakeAt, seenLast, result, outcomes, backoffs,
                 sendLog, overlapped, pureVars>>

\* state of the calls before any is made
CallsIdle ==
  /\ pc = [r \in Req |-> "idle"]
  /\ attempt = [r \in Req |-> 0]
  /\ lastError = [r \in Req |-> Undefined]
  /\ wakeAt = [r \in Req |-> 0]
  /\ seenLast = [r \in Req |-> 0]
  /\ result = [r \in Req |-> NoResult]
  /\ outcomes = [r \in Req |-> <<>>]
  /\ backoffs = [r \in Req |-> <<>>]
  /\ sendLog = <<>>
  /\ overlapped = [c \in Clients |-> FALSE]

\* client A constructed with any config, client B with none; every call is
\* made on A
Init ==
  /\ now = StartTime
  /\ retries \in [Clients -> RetriesChoices \cup {DefaultRetries}]
  /\ retries["B"] = DefaultRetries
  /\ retries["A"] \in RetriesChoices
  /\ retryDelay \in [Clients -> RetryDelayChoices \cup {DefaultRetryDelay}]
  /\ retryDelay["B"] = DefaultRetryDelay
  /\ retryDelay["A"] \in RetryDelayChoices
  /\ lastRequestTime = [c \in Clients |-> 0]
  /\ client = [r \in Req |-> "A"]
  /\ CallsIdle
  /\ rawError = RawNoResponse("")
  /\ sleeperError = Undefined
  /\ sdkConfig = [baseURL |-> <<>>, timeout |-> <<>>,
                  retries |-> <<retries["A"]>>, retryDelay |-> <<retryDelay["A"]>>]
  /\ axiosConfig = [baseURL |-> DefaultBaseURL, timeout |-> DefaultTimeout]
  /\ shownConfig = Undefined
  /\ operation = "get"
  /\ opResult = NoResult
  /\ weekRange = NoWeeks
  /\ params = <<>>
  /\ queryString = Undefined
  /\ AccessorsIdle

Next ==
  \/ \E r \in Req : get(r)
  \/ \E r \in Req : PacingResume(r)
  \/ \E r \in Req : RespondSuccess(r)
  \/ \E r \in Req, raw \in RawFailures : RespondFailure(r, raw)
  \/ \E r \in Req : BackoffResume(r)
  \/ Tick

Spec == Init /\ [][Next]_vars

\* ------------------------------------------------------------------------
\* The classifier on its own
\* ------------------------------------------------------------------------
ClassifyStep ==
  /\ sleeperError = Undefined
  /\ sleeperError' = Classify(rawError)
  /\ UNCHANGED <<coreVars, rawError, configVars, serviceVars, queryVars,
                 accessorVars>>

InitClassify ==
  /\ now = StartTime
  /\ retries = [c \in Clients |-> DefaultRetries]
  /\ retryDelay = [c \in Clients |-> DefaultRetryDelay]
  /\ lastRequestTime = [c \in Clients |-> 0]
  /\ client = [r \in Req |-> "A"]
  /\ CallsIdle
  /\ rawError \in RawErrorInputs
  /\ sleeperError = Undefined
  /\ sdkConfig = [baseURL |-> <<>>, timeout |-> <<>>, retries |-> <<>>, retryDelay |-> <<>>]
  /\ axiosConfig = [baseURL |-> DefaultBaseURL, timeout |-> DefaultTimeout]
  /\ shownConfig = Undefined
  /\ operation = "classify"
  /\ opResult = NoResult
  /\ weekRange = NoWeeks
  /\ params = <<>>
  /\ queryString = Undefined
  /\ AccessorsIdle

NextClassify == ClassifyStep

SpecClassify == InitClassify /\ [][NextClassify]_vars

\* ------------------------------------------------------------------------
\* Construction of an SDK and getClientConfig on its own
\* ------------------------------------------------------------------------
\* sdk.getClientConfig()
GetClientConfigCall ==
  /\ shownConfig = Undefined
  /\ shownConfig' = getClientConfig
  /\ UNCHANGED <<coreVars, rawError, sleeperError, sdkConfig, axiosConfig,
                 serviceVars, queryVars, accessorVars>>

\* the state after new SleeperSDK(sdkConfig) for client A; B has no config
InitConfig ==
  /\ sdkConfig \in SDKConfigs
  /\ now = StartTime
  /\ retries = [c \in Clients |->
                  IF c = "A" THEN HttpClientConstructor(sdkConfig).retries
                  ELSE DefaultRetries]
  /\ retryDelay = [c \in Clients |->
                     IF c = "A" THEN HttpClientConstructor(sdkConfig).retryDelay
                     ELSE DefaultRetryDelay]
  /\ axiosConfig = [baseURL |-> HttpClientConstructor(sdkConfig).baseURL,
                    timeout |-> HttpClientConstructor(sdkConfig).timeout]
  /\ lastRequestTime = [c \in Clients |-> 0]
  /\ client = [r \in Req |-> "A"]
  /\ CallsIdle
  /\ rawError = RawNoResponse("")
  /\ sleeperError = Undefined
  /\ shownConfig = Undefined
  /\ operation = "getClientConfig"
  /\ opResult = NoResult
  /\ weekRange = NoWeeks
  /\ params = <<>>
  /\ queryString = Undefined
  /\ AccessorsIdle

NextConfig == GetClientConfigCall

SpecConfig == InitConfig /\ [][NextConfig]_vars

\* ------------------------------------------------------------------------
\* Progress: every attempt settles, every timer fires, time goes on
\* ------------------------------------------------------------------------
\* the deadlines of the timers that are set and not yet due
TimersAhead == {wakeAt[r] : r \in {q \in Req : pc[q] \in {"pacing", "backoff"} /\ wakeAt[q] > now}}

\* the clock goes on past MaxTime, to the next deadline
Elapse ==
  /\ now >= MaxTime
  /\ TimersAhead # {}
  /\ now' = CHOOSE t \in TimersAhead : \A u \in TimersAhead : t <= u
  /\ UNCHANGED <<retries, retryDelay, lastRequestTime, client, pc, attempt,
                 lastError, wakeAt, seenLast, result, outcomes, backoffs,
                 sendLog, overlapped, pureVars>>

\* the attempt of call r in flight settles, one way or another
Respond(r) == RespondSuccess(r) \/ \E raw \in RawFailures : RespondFailure(r, raw)

NextLive == Next \/ Elapse

\* time goes on; an attempt in flight settles; a timer that is due fires
Fairness ==
  /\ WF_vars(Tick \/ Elapse)
  /\ WF_vars(\E r \in Req : Respond(r))
  /\ WF_vars(\E r \in Req : PacingResume(r) \/ BackoffResume(r))

\* as Init, with the clock one step before MaxTime
InitLive ==
  /\ now = MaxTime - ClockStep
  /\ retries \in [Clients -> RetriesChoices \cup {DefaultRetries}]
  /\ retries["B"] = DefaultRetries
  /\ retries["A"] \in RetriesChoices
  /\ retryDelay \in [Clients -> RetryDelayChoices \cup {DefaultRetryDelay}]
  /\ retryDelay["B"] = DefaultRetryDelay
  /\ retryDelay["A"] \in RetryDelayChoices
  /\ lastRequestTime = [c \in Clients |-> 0]
  /\ client = [r \in Req |-> "A"]
  /\ CallsIdle
  /\ rawError = RawNoResponse("")
  /\ sleeperError = Undefined
  /\ sdkConfig = [baseURL |-> <<>>, timeout |-> <<>>,
                  retries |-> <<retries["A"]>>, retryDelay |-> <<retryDelay["A"]>>]
  /\ axiosConfig = [baseURL |-> DefaultBaseURL, timeout |-> DefaultTimeout]
  /\ shownConfig = Undefined
  /\ operation = "get"
  /\ opResult = NoResult
  /\ weekRange = NoWeeks
  /\ params = <<>>
  /\ queryString = Undefined
  /\ AccessorsIdle

SpecLive == InitLive /\ [][NextLive]_vars /\ Fairness

\* ------------------------------------------------------------------------
\* Two SDK instances, each with its own HttpClient
\* ------------------------------------------------------------------------
TwoClientRetries == {0, 1}

InitTwoClients ==
  /\ now = StartTime
  /\ retries \in [Clients -> TwoClientRetries]
  /\ retries["B"] = 0
  /\ retryDelay \in [Clients -> {0}]
  /\ lastRequestTime = [c \in Clients |-> 0]
  /\ client = [r \in Req |-> IF r % 2 = 1 THEN "A" ELSE "B"]
  /\ CallsIdle
  /\ rawError = RawNoResponse("")
  /\ sleeperError = Undefined
  /\ sdkConfig = [baseURL |-> <<>>, timeout |-> <<>>,
                  retries |-> <<retries["A"]>>, retryDelay |-> <<retryDelay["A"]>>]
  /\ axiosConfig = [baseURL |-> DefaultBaseURL, timeout |-> DefaultTimeout]
  /\ shownConfig = Undefined
  /\ operation = "get"
  /\ opResult = NoResult
  /\ weekRange = NoWeeks
  /\ params = <<>>
  /\ queryString = Undefined
  /\ AccessorsIdle

SpecTwoClients == InitTwoClients /\ [][Next]_vars

\* ------------------------------------------------------------------------
\* SDK and service methods on top of the dispatch core
\* ------------------------------------------------------------------------
Operations ==
  {"testConnection", "getPlayersByPosition", "getLeagueData",
   "getMatchupsForWeekRange"}

\* Array.from({ length: endWeek - startWeek + 1 }, (_, i) => startWeek + i):
\* a length below 0 counts as 0
NumWeeks(range) ==
  IF range.endWeek - range.startWeek + 1 > 0
  THEN range.endWeek - range.startWeek + 1 ELSE 0

WeeksFromOne(range) == [i \in 1..NumWeeks(range) |-> range.startWeek + i]

Weeks(range) == [i \in 1..NumWeeks(range) |-> range.startWeek + (i - 1)]

\* the request calls a method makes: getLeagueData makes three at once
\* (league, rosters, users), getMatchupsForWeekRange one per week (call i
\* asks for the week Weeks(weekRange)[i]), the other two make one
OpCalls(op) ==
  IF op = "getLeagueData" THEN {1, 2, 3} \cap Req
  ELSE IF op = "getMatchupsForWeekRange" THEN 1..NumWeeks(weekRange)
  ELSE {1}

\* SleeperSDK.testConnection: try { await getSportState } catch { false }
testConnectionRethrows(outcome) ==
  IF outcome.kind = "value" THEN Resolved(TRUE) ELSE outcome

testConnection(outcome) ==
  IF outcome.kind = "value" THEN Resolved(TRUE) ELSE Resolved(FALSE)

\* PlayerService.getPlayersByPosition: await getAllPlayers, then filter
getPlayersByPosition(outcome) ==
  IF outcome.kind = "value"
  THEN Resolved([matches |-> outcome.value])
  ELSE outcome

\* Promise.all over the calls in S: the rejection of the call that rejected,
\* else the values of all
PromiseAll(res, S) ==
  IF \E r \in S : res[r].kind = "thrown"
  THEN res[CHOOSE r \in S : res[r].kind = "thrown"]
  ELSE Resolved([r \in S |-> res[r].value])

\* LeagueService.getLeagueData
getLeagueDataWrapsError(res) ==
  LET all == PromiseAll(res, OpCalls("getLeagueData"))
  IN  IF all.kind = "thrown"
      THEN Thrown([kind |-> "error", status |-> 0,
                   message |-> "Failed to load league data", details |-> NoData])
      ELSE Resolved([league |-> all.value[1], rosters |-> all.value[2],
                     users |-> all.value[3]])

getLeagueData(res) ==
  LET all == PromiseAll(res, OpCalls("getLeagueData"))
  IN  IF all.kind = "thrown"
      THEN all
      ELSE Resolved([league |-> all.value[1], rosters |-> all.value[2],
                     users |-> all.value[3]])

\* results.reduce((acc, { week, matchups }) => { acc[week] = matchups; ... }, {})
RECURSIVE Reduce(_, _)
Reduce(results, acc) ==
  IF results = <<>> THEN acc
  ELSE LET week == Head(results).week
           matchups == Head(results).matchups
       IN  Reduce(Tail(results),
                  [w \in DOMAIN acc \cup {week} |->
                     IF w = week THEN matchups ELSE acc[w]])

\* LeagueService.getMatchupsForWeekRange
getMatchupsForWeekRange(res, range) ==
  LET weeks == Weeks(range)
      all == PromiseAll(res, DOMAIN weeks)
  IN  IF all.kind = "thrown"
      THEN all
      ELSE Resolved(Reduce([i \in DOMAIN weeks |->
                              [week |-> weeks[i], matchups |-> all.value[i]]],
                           <<>>))

\* the method's continuation is ready to run: one of its calls has rejected,
\* or all have resolved.  It is a microtask: it runs before any timer or
\* network callback.
ServiceDue ==
  /\ opResult = NoResult
  /\ \/ \E r \in OpCalls(operation) : pc[r] = "rejected"
     \/ \A r \in OpCalls(operation) : pc[r] = "resolved"

\* the method settles
ServiceSettle ==
  /\ ServiceDue
  /\ opResult' =
       (IF operation = "testConnection" THEN testConnection(result[1])
        ELSE IF operation = "getPlayersByPosition" THEN getPlayersByPosition(result[1])
        ELSE IF operation = "getMatchupsForWeekRange"
             THEN getMatchupsForWeekRange(result, weekRange)
        ELSE getLeagueData(result))
  /\ UNCHANGED <<coreVars, rawError, sleeperError, configVars, operation,
                 weekRange, queryVars, accessorVars>>

\* a step of one of the method's request calls
ServiceCallStep(r) ==
  /\ ~ServiceDue
  /\ \/ get(r)
     \/ PacingResume(r)
     \/ RespondSuccess(r)
     \/ \E raw \in RawFailures : RespondFailure(r, raw)
     \/ BackoffResume(r)

ServiceTick == ~ServiceDue /\ Tick

InitService ==
  /\ now = StartTime
  /\ retries \in [Clients -> RetriesChoices \cup {DefaultRetries}]
  /\ retries["B"] = DefaultRetries
  /\ retries["A"] \in RetriesChoices
  /\ retryDelay \in [Clients -> RetryDelayChoices \cup {DefaultRetryDelay}]
  /\ retryDelay["B"] = DefaultRetryDelay
  /\ retryDelay["A"] \in RetryDelayChoices
  /\ lastRequestTime = [c \in Clients |-> 0]
  /\ client = [r \in Req |-> "A"]
  /\ CallsIdle
  /\ rawError = RawNoResponse("")
  /\ sleeperError = Undefined
  /\ sdkConfig = [baseURL |-> <<>>, timeout |-> <<>>,
                  retries |-> <<retries["A"]>>, retryDelay |-> <<retryDelay["A"]>>]
  /\ axiosConfig = [baseURL |-> DefaultBaseURL, timeout |-> DefaultTimeout]
  /\ shownConfig = Undefined
  /\ operation \in Operations
  /\ opResult = NoResult
  /\ weekRange \in (IF operation = "getMatchupsForWeekRange"
                     THEN WeekRanges ELSE {NoWeeks})
  /\ params = <<>>
  /\ queryString = Undefined
  /\ AccessorsIdle

NextService ==
  \/ ServiceSettle
  \/ \E r \in OpCalls(operation) : ServiceCallStep(r)
  \/ ServiceTick

SpecService == InitService /\ [][NextService]_vars

\* ------------------------------------------------------------------------
\* buildQueryString
\* ------------------------------------------------------------------------
\* strings are sequences of one-character strings
Str(chars) == chars

\* parameter values: string | number | boolean | undefined
NumberValue(n) == [type |-> "number", n |-> n]
StringValue(str) == [type |-> "string", s |-> str]
BooleanValue(b) == [type |-> "boolean", b |-> b]
UndefinedValue == [type |-> "undefined"]

ParamKeys == {<<"a">>, <<"b">>, <<"c">>, <<"k", "=">>}

ParamValues ==
  { UndefinedValue, NumberValue(1), NumberValue(25), BooleanValue(TRUE),
    StringValue(<<>>), StringValue(<<"x", " ", "y">>),
    StringValue(<<"a", "&", "b">>) }

\* Object.entries(params): [key, value] pairs, every key once
ParamEntries ==
  { e \in UNION { [1..n -> ParamKeys \X ParamValues] : n \in 0..MaxParams } :
      \A i, j \in DOMAIN e : e[i][1] = e[j][1] => i = j }

Digit(d) == <<"0", "1", "2", "3", "4", "5", "6", "7", "8", "9">>[d + 1]

RECURSIVE NumberToString(_)
NumberToString(n) ==
  IF n < 10 THEN <<Digit(n)>>
  ELSE NumberToString(n \div 10) \o <<Digit(n % 10)>>

\* String(value)
String(value) ==
  CASE value.type = "number" -> NumberToString(value.n)
    [] value.type = "string" -> value.s
    [] value.type = "boolean" ->
         (IF value.b THEN <<"t", "r", "u", "e">> ELSE <<"f", "a", "l", "s", "e">>)
    [] value.type = "undefined" ->
         <<"u", "n", "d", "e", "f", "i", "n", "e", "d">>

\* encodeURIComponent on one character: letters and digits are left alone,
\* the others become their %XX escape
EncodeChar(ch) ==
  CASE ch = " " -> <<"%", "2", "0">>
    [] ch = "&" -> <<"%", "2", "6">>
    [] ch = "=" -> <<"%", "3", "D">>
    [] ch = "?" -> <<"%", "3", "F">>
    [] ch = "%" -> <<"%", "2", "5">>
    [] OTHER -> <<ch>>

RECURSIVE encodeURIComponent(_)
encodeURIComponent(str) ==
  IF str = <<>> THEN <<>>
  ELSE EncodeChar(Head(str)) \o encodeURIComponent(Tail(str))

\* Array.prototype.join
RECURSIVE Join(_, _)
Join(parts, sep) ==
  IF parts = <<>> THEN <<>>
  ELSE IF Len(parts) = 1 THEN parts[1]
  ELSE parts[1] \o sep \o Join(Tail(parts), sep)

IsDefined(entry) == entry[2] # UndefinedValue

\* `${encodeURIComponent(key)}=${encodeURIComponent(String(value))}`
EncodedPair(entry) ==
  encodeURIComponent(entry[1]) \o <<"=">> \o encodeURIComponent(String(entry[2]))

buildQueryStringKeepsUndefined(entries) ==
  LET filteredParams == Join([i \in DOMAIN entries |-> EncodedPair(entries[i])], <<"&">>)
  IN  IF filteredParams # <<>> THEN <<"?">> \o filteredParams ELSE <<>>

buildQueryString(entries) ==
  LET filtered == SelectSeq(entries, IsDefined)
      filteredParams == Join([i \in DOMAIN filtered |-> EncodedPair(filtered[i])], <<"&">>)
  IN  IF filteredParams # <<>> THEN <<"?">> \o filteredParams ELSE <<>>

\* a returned value, as opposed to no value yet
Returned(value) == [kind |-> "returned", value |-> value]

BuildQueryStringCall ==
  /\ queryString = Undefined
  /\ queryString' = Returned(buildQueryString(params))
  /\ UNCHANGED <<coreVars, rawError, sleeperError, configVars, serviceVars,
                 params, accessorVars>>

InitQuery ==
  /\ now = StartTime
  /\ retries = [c \in Clients |-> DefaultRetries]
  /\ retryDelay = [c \in Clients |-> DefaultRetryDelay]
  /\ lastRequestTime = [c \in Clients |-> 0]
  /\ client = [r \in Req |-> "A"]
  /\ CallsIdle
  /\ rawError = RawNoResponse("")
  /\ sleeperError = Undefined
  /\ sdkConfig = [baseURL |-> <<>>, timeout |-> <<>>, retries |-> <<>>, retryDelay |-> <<>>]
  /\ axiosConfig = [baseURL |-> DefaultBaseURL, timeout |-> DefaultTimeout]
  /\ shownConfig = Undefined
  /\ operation = "buildQueryString"
  /\ opResult = NoResult
  /\ weekRange = NoWeeks
  /\ params \in ParamEntries
  /\ queryString = Undefined
  /\ AccessorsIdle

NextQuery == BuildQueryStringCall

SpecQuery == InitQuery /\ [][NextQuery]_vars

\* ------------------------------------------------------------------------
\* PlayerService: the limit-taking filters over getAllPlayers
\* ------------------------------------------------------------------------
\* search_rank 0 stands for an absent search_rank, years_exp -1 for an
\* absent years_exp, team "" for no team
Player(id, first, last, pos, fpos, team, status, years, rank) ==
  [player_id |-> id, first_name |-> first, last_name |-> last,
   search_full_name |-> first \o last, position |-> pos, fantasy_positions |-> fpos,
   team |-> team, status |-> status, years_exp |-> years, search_rank |-> rank]

PlayerPool ==
  { Player(1, <<"A", "l">>, <<"B", "o">>, "QB", {"QB"}, "NE", "Active", 0, 2),
    Player(2, <<"B", "o">>, <<"C", "y">>, "RB", {"RB", "WR"}, "NE", "Active", 3, 0),
    Player(3, <<"C", "y">>, <<"A", "l">>, "WR", {"WR", "QB"}, "", "Inactive", 0, 1),
    Player(4, <<"D">>, <<"A", "b", "o">>, "QB", {"QB"}, "DAL", "Active", 0, 0),
    Player(5, <<"E">>, <<"F">>, "K", {}, "DAL", "Active", -1, 3) }

\* Object.values(allPlayers): the players, each once, in some order
PlayerLists ==
  { l \in UNION { [1..n -> PlayerPool] : n \in 0..MaxPlayers } :
      \A i, j \in DOMAIN l : l[i] = l[j] => i = j }

FilterCalls ==
  { [method |-> "getPlayersByPosition", arg |-> a] : a \in {"QB", "WR"} } \cup
  { [method |-> "getPlayersByTeam", arg |-> a] : a \in {"NE", "DAL"} } \cup
  { [method |-> "searchPlayersByName", arg |-> a] : a \in {<<"A">>, <<"b", "o">>} } \cup
  { [method |-> "getActivePlayers", arg |-> ""],
    [method |-> "getRookiePlayers", arg |-> ""] }

PlayerQueries ==
  { [method |-> f.method, arg |-> f.arg, limit |-> n, allPlayers |-> l] :
      f \in FilterCalls, n \in 0..MaxLimit, l \in PlayerLists }

LowerChar(ch) ==
  CASE ch = "A" -> "a" [] ch = "B" -> "b" [] ch = "C" -> "c"
    [] ch = "D" -> "d" [] ch = "E" -> "e" [] ch = "F" -> "f"
    [] OTHER -> ch

toLowerCase(str) == [i \in DOMAIN str |-> LowerChar(str[i])]

\* String.prototype.includes
Includes(str, sub) ==
  \E i \in 0..(Len(str) - Len(sub)) : SubSeq(str, i + 1, i + Len(sub)) = sub

\* the condition under which the loop pushes the player
Satisfies(query, player) ==
  CASE query.method = "getPlayersByPosition" ->
         \/ player.position = query.arg
         \/ query.arg \in player.fantasy_positions
    [] query.method = "getPlayersByTeam" -> player.team = query.arg
    [] query.method = "getActivePlayers" ->
         player.status = "Active" /\ player.team # ""
    [] query.method = "getRookiePlayers" ->
         player.years_exp = 0 /\ player.status = "Active"
    [] query.method = "searchPlayersByName" ->
         LET searchLower == toLowerCase(query.arg)
             fullName == toLowerCase(player.first_name \o <<" ">> \o player.last_name)
             searchFullName == toLowerCase(player.search_full_name)
         IN  \/ Includes(fullName, searchLower)
             \/ Includes(searchFullName, searchLower)
             \/ Includes(toLowerCase(player.first_name), searchLower)
             \/ Includes(toLowerCase(player.last_name), searchLower)

\* if (matches.length >= limit) break
LimitReachedLate(length, limit) == length > limit

LimitReached(length, limit) == length >= limit

\* for (const player of Object.values(allPlayers)) { ... }
RECURSIVE MatchLoop(_, _, _)
MatchLoop(players, matches, query) ==
  IF players = <<>> \/ LimitReached(Len(matches), query.limit) THEN matches
  ELSE IF Satisfies(query, Head(players))
       THEN MatchLoop(Tail(players), Append(matches, Head(players)), query)
       ELSE MatchLoop(Tail(players), matches, query)

PositionPriority(pos) ==
  CASE pos = "QB" -> 1 [] pos = "RB" -> 2 [] pos = "WR" -> 3
    [] pos = "TE" -> 4 [] pos = "K" -> 5 [] pos = "DEF" -> 6
    [] OTHER -> 999

\* the comparator given to sort
Compare(query, a, b) ==
  IF a.search_rank # 0 /\ b.search_rank # 0 THEN a.search_rank - b.search_rank
  ELSE IF a.search_rank # 0 THEN -1
  ELSE IF b.search_rank # 0 THEN 1
  ELSE IF query.method = "getPlayersByTeam"
       THEN PositionPriority(a.position) - PositionPriority(b.position)
  ELSE 0

\* Array.prototype.sort: stable
Insert(query, sorted, x) ==
  LET after == {i \in DOMAIN sorted : Compare(query, sorted[i], x) > 0}
      k == IF after = {} THEN Len(sorted) + 1
           ELSE CHOOSE i \in after : \A j \in after : i <= j
  IN  SubSeq(sorted, 1, k - 1) \o <<x>> \o SubSeq(sorted, k, Len(sorted))

RECURSIVE Sort(_, _)
Sort(query, matches) ==
  IF matches = <<>> THEN <<>>
  ELSE Insert(query, Sort(query, SubSeq(matches, 1, Len(matches) - 1)),
              matches[Len(matches)])

\* the filter, from the resolved getAllPlayers to its return
FilterPlayers(query) == Sort(query, MatchLoop(query.allPlayers, <<>>, query))

FilterPlayersCall ==
  /\ playerResult = Undefined
  /\ playerResult' = Returned(FilterPlayers(playerQuery))
  /\ UNCHANGED <<coreVars, rawError, sleeperError, configVars, serviceVars,
                 queryVars, playerQuery, draftVars>>

InitPlayers ==
  /\ now = StartTime
  /\ retries = [c \in Clients |-> DefaultRetries]
  /\ retryDelay = [c \in Clients |-> DefaultRetryDelay]
  /\ lastRequestTime = [c \in Clients |-> 0]
  /\ client = [r \in Req |-> "A"]
  /\ CallsIdle
  /\ rawError = RawNoResponse("")
  /\ sleeperError = Undefined
  /\ sdkConfig = [baseURL |-> <<>>, timeout |-> <<>>, retries |-> <<>>, retryDelay |-> <<>>]
  /\ axiosConfig = [baseURL |-> DefaultBaseURL, timeout |-> DefaultTimeout]
  /\ shownConfig = Undefined
  /\ operation = "filterPlayers"
  /\ opResult = NoResult
  /\ weekRange = NoWeeks
  /\ params = <<>>
  /\ queryString = Undefined
  /\ playerQuery \in PlayerQueries
  /\ playerResult = Undefined
  /\ draftState = NoDraft
  /\ currentPick = Undefined

NextPlayers == FilterPlayersCall

SpecPlayers == InitPlayers /\ [][NextPlayers]_vars

\* ------------------------------------------------------------------------
\* DraftService.getCurrentPick
\* ------------------------------------------------------------------------
DraftTypes == {"snake", "linear", "auction"}
DraftStatuses == {"pre_draft", "drafting", "complete"}

\* slot_to_roster_id?: absent, or a mapping from some of the slots to roster ids
NoSlotMap == [present |-> FALSE, map |-> <<>>]
SlotMaps(teams) ==
  {NoSlotMap} \cup
  { [present |-> TRUE, map |-> [slot \in S |-> 10 + slot]] : S \in SUBSET (1..teams) }

\* what getDraft and getDraftPicks resolved with: the draft and the number
\* of picks made (picks.length)
DraftStates ==
  UNION { UNION {
    { [type |-> ty, status |-> st, teams |-> t, rounds |-> n, picks |-> k,
       slot_to_roster_id |-> m] :
        ty \in DraftTypes, st \in DraftStatuses, k \in 0..(t * n + 1),
        m \in SlotMaps(t) } : n \in 0..MaxRounds } : t \in 0..MaxTeams }

Null == [kind |-> "null"]

\* nextPickNumber > totalTeams * totalRounds
DraftShouldBeCompleteEarly(nextPickNumber, totalTeams, totalRounds) ==
  nextPickNumber >= totalTeams * totalRounds

DraftShouldBeComplete(nextPickNumber, totalTeams, totalRounds) ==
  nextPickNumber > totalTeams * totalRounds

\* Math.ceil(a / b), b > 0
Ceil(a, b) == (a + b - 1) \div b

\* draft.type === 'snake' && round % 2 === 0
IsReversedRoundOdd(type, round) == type = "snake" /\ round % 2 = 1

IsReversedRound(type, round) == type = "snake" /\ round % 2 = 0

\* totalTeams - pickInRound + 1
ReversedPickFromZero(totalTeams, pickInRound) == totalTeams - pickInRound

ReversedPick(totalTeams, pickInRound) == totalTeams - pickInRound + 1

\* getCurrentPick, from the resolved Promise.all to its return
getCurrentPick(draft) ==
  IF draft.status = "complete" THEN Null
  ELSE
    LET totalTeams == draft.teams
        totalRounds == draft.rounds
        nextPickNumber == draft.picks + 1
    IN  IF DraftShouldBeComplete(nextPickNumber, totalTeams, totalRounds) THEN Null
        ELSE
          LET round == Ceil(nextPickNumber, totalTeams)
              pickInRound == ((nextPickNumber - 1) % totalTeams) + 1
              adjustedPickInRound ==
                IF IsReversedRound(draft.type, round)
                THEN ReversedPick(totalTeams, pickInRound)
                ELSE pickInRound
              slots == draft.slot_to_roster_id
          IN  IF slots.present /\ adjustedPickInRound \in DOMAIN slots.map
              THEN [round |-> round, pick |-> adjustedPickInRound,
                    rosterId |-> slots.map[adjustedPickInRound]]
              ELSE [round |-> round, pick |-> adjustedPickInRound]

GetCurrentPickCall ==
  /\ currentPick = Undefined
  /\ currentPick' = Returned(getCurrentPick(draftState))
  /\ UNCHANGED <<coreVars, rawError, sleeperError, configVars, serviceVars,
                 queryVars, playerVars, draftState>>

InitDraft ==
  /\ now = StartTime
  /\ retries = [c \in Clients |-> DefaultRetries]
  /\ retryDelay = [c \in Clients |-> DefaultRetryDelay]
  /\ lastRequestTime = [c \in Clients |-> 0]
  /\ client = [r \in Req |-> "A"]
  /\ CallsIdle
  /\ rawError = RawNoResponse("")
  /\ sleeperError = Undefined
  /\ sdkConfig = [baseURL |-> <<>>, timeout |-> <<>>, retries |-> <<>>, retryDelay |-> <<>>]
  /\ axiosConfig = [baseURL |-> DefaultBaseURL, timeout |-> DefaultTimeout]
  /\ shownConfig = Undefined
  /\ operation = "getCurrentPick"
  /\ opResult = NoResult
  /\ weekRange = NoWeeks
  /\ params = <<>>
  /\ queryString = Undefined
  /\ playerQuery = NoQuery
  /\ playerResult = Undefined
  /\ draftState \in DraftStates
  /\ currentPick = Undefined

NextDraft == GetCurrentPickCall

SpecDraft == InitDraft /\ [][NextDraft]_vars

\* ------------------------------------------------------------------------
\* Vocabulary of the properties
\* ------------------------------------------------------------------------
\* the attempts instance c handed to the network, in the order of dispatch
SendsOf(c) == SelectSeq(sendLog, LAMBDA e : client[e.req] = c)

\* the attempts of call r, in the order of dispatch
SendsBy(r) == SelectSeq(sendLog, LAMBDA e : e.req = r)

\* a failure with a 4xx status other than 429
ClientError(raw) ==
  ~raw.ok /\ raw.response /\ raw.status >= 400 /\ raw.status < 500 /\ raw.status # 429

\* a failure with status 0 (no response), 429 or >= 500
RetryableFailure(raw) ==
  ~raw.ok /\ (~raw.response \/ raw.status = 429 \/ raw.status >= 500)

\* the status the caller is to see for a failed attempt
SurfacedStatus(raw) == IF raw.response THEN raw.status ELSE 0

\* 2 to the power n
RECURSIVE TwoToThe(_)
TwoToThe(n) == IF n = 0 THEN 1 ELSE 2 * TwoToThe(n - 1)

\* ------------------------------------------------------------------------
\* C1
\* ------------------------------------------------------------------------
\* C1: for one client instance and any interleaving of calls, concurrent
\* ones included, no two attempts are handed to the network less than
\* minRequestInterval apart.
C1_PacingAnyInterleaving ==
  \A c \in Clients :
    LET S == SendsOf(c)
    IN  \A i, j \in 1..Len(S) : i < j => S[j].at - S[i].at >= minRequestInterval

\* ------------------------------------------------------------------------
\* C2
\* ------------------------------------------------------------------------
\* C2: when the calls on an instance are made one after another (each has
\* settled before the next is made), adjacent attempts start at least
\* minRequestInterval apart; a pacing wait lasts minRequestInterval minus the
\* elapsed time, i.e. until lastRequestTime + minRequestInterval, and
\* lastRequestTime is the time of the latest dispatch.
C2_SequentialPacing ==
  \A c \in Clients :
    ~overlapped[c] =>
      LET S == SendsOf(c)
      IN  /\ \A i \in 1..(Len(S) - 1) : S[i + 1].at - S[i].at >= minRequestInterval
          /\ \A r \in Req :
               (client[r] = c /\ pc[r] = "pacing") =>
                  wakeAt[r] = lastRequestTime[c] + minRequestInterval
          /\ Len(S) > 0 => lastRequestTime[c] = S[Len(S)].at

\* two calls made one after the other, the second one made less than
\* minRequestInterval after the first was sent: it waited, then was sent
C2_Witness ==
  /\ ~overlapped["A"]
  /\ LET S == SendsOf("A")
     IN  \E i \in 1..(Len(S) - 1) :
           /\ S[i].req # S[i + 1].req
           /\ wakeAt[S[i + 1].req] = S[i].at + minRequestInterval
           /\ S[i + 1].at >= S[i].at + minRequestInterval

\* ------------------------------------------------------------------------
\* C3
\* ------------------------------------------------------------------------
\* C3: an attempt that fails with a 4xx status other than 429 is the call's
\* last attempt whatever retries is: the call rejects with that status, no
\* backoff wait follows it and no further attempt is dispatched; when it is
\* the first attempt the call has made exactly one attempt.
C3_TerminalClientError ==
  \A r \in Req :
    \A k \in 1..Len(outcomes[r]) :
      ClientError(outcomes[r][k]) =>
        /\ k = Len(outcomes[r])
        /\ pc[r] = "rejected"
        /\ result[r].kind = "thrown"
        /\ result[r].error.status = outcomes[r][k].status
        /\ Sent(r) = k
        /\ Len(backoffs[r]) = k - 1

\* a first attempt failed with 400 although retries were configured
C3_Witness ==
  \E r \in Req :
    /\ retries[client[r]] >= 1
    /\ Len(outcomes[r]) = 1
    /\ ClientError(outcomes[r][1])
    /\ pc[r] = "rejected"
    /\ Sent(r) = 1

\* ------------------------------------------------------------------------
\* C4
\* ------------------------------------------------------------------------
\* C4: with retries = R >= 0 a call never makes more than R + 1 attempts, and
\* a call all of whose attempts fail with a retryable status (0, 429, >= 500)
\* rejects after exactly R + 1 attempts, not earlier.
C4_ExactlyRetriesPlusOne ==
  \A r \in Req :
    LET R == retries[client[r]]
        n == Len(outcomes[r])
    IN  R >= 0 =>
          /\ Sent(r) <= R + 1
          /\ (pc[r] = "rejected" /\ \A k \in 1..n : RetryableFailure(outcomes[r][k]))
               => (n = R + 1 /\ Sent(r) = R + 1)
          /\ (n = R + 1 /\ ~outcomes[r][n].ok) => pc[r] = "rejected"

\* retries = 2 and three retryable failures: the call has rejected
C4_Witness ==
  \E r \in Req :
    /\ retries[client[r]] = 2
    /\ pc[r] = "rejected"
    /\ Len(outcomes[r]) = 3
    /\ \A k \in 1..3 : RetryableFailure(outcomes[r][k])

\* ------------------------------------------------------------------------
\* C5
\* ------------------------------------------------------------------------
\* C5: the k-th backoff wait of a call (after the failed attempt with index
\* k - 1) is retryDelay * 2^(k-1), the next attempt is not dispatched before
\* it has elapsed, and backoff waits follow exactly the retryable failures
\* that are not the last allowed attempt: none follows a terminal failure or
\* the final allowed attempt.
C5_BackoffSchedule ==
  \A r \in Req :
    LET c == client[r]
        S == SendsBy(r)
    IN  /\ \A k \in 1..Len(backoffs[r]) :
             backoffs[r][k] = retryDelay[c] * TwoToThe(k - 1)
        /\ Len(backoffs[r]) =
             Cardinality({k \in 1..Len(outcomes[r]) :
                            RetryableFailure(outcomes[r][k]) /\ k - 1 # retries[c]})
        /\ \A k \in 1..(Len(S) - 1) :
             S[k + 1].at - S[k].at >= retryDelay[c] * TwoToThe(k - 1)
        /\ pc[r] = "backoff" =>
             wakeAt[r] >= S[Len(S)].at + retryDelay[c] * TwoToThe(Len(S) - 1)

\* base delay 30: the waits after the first and the second failure were 30
\* and 60
C5_Witness ==
  \E r \in Req :
    /\ retryDelay[client[r]] = 30
    /\ backoffs[r] = <<30, 60>>

\* ------------------------------------------------------------------------
\* C6
\* ------------------------------------------------------------------------
\* C6: a 429 failure is handled as a 5xx failure is: before the last allowed
\* attempt it is followed by the backoff wait retryDelay * 2^k, at the last
\* allowed attempt the call rejects with it; the message surfaced with
\* status 429 is the fixed rate-limit text, not the raw message.
C6_RateLimitedRetriedLike5xx ==
  \A r \in Req :
    LET c == client[r]
    IN  \A k \in 1..Len(outcomes[r]) :
          LET raw == outcomes[r][k]
          IN  (~raw.ok /\ raw.response /\ (raw.status = 429 \/ raw.status >= 500)) =>
                /\ k - 1 <= retries[c]
                /\ k - 1 < retries[c] =>
                     /\ Len(backoffs[r]) >= k
                     /\ backoffs[r][k] = retryDelay[c] * TwoToThe(k - 1)
                     /\ k = Len(outcomes[r]) => Pending(r)
                /\ k - 1 = retries[c] =>
                     /\ pc[r] = "rejected"
                     /\ result[r].kind = "thrown"
                     /\ result[r].error.status = raw.status
                     /\ raw.status = 429 =>
                          /\ result[r].error.message = RateLimitMessage
                          /\ result[r].error.message # raw.message

\* every allowed attempt was answered 429 and the call has rejected with the
\* rate-limit text
C6_Witness ==
  \E r \in Req :
    /\ retries[client[r]] = 2
    /\ Len(outcomes[r]) = 3
    /\ \A k \in 1..3 : outcomes[r][k].status = 429
    /\ Len(backoffs[r]) = 2
    /\ pc[r] = "rejected"
    /\ result[r].error.message = RateLimitMessage

\* ------------------------------------------------------------------------
\* C7
\* ------------------------------------------------------------------------
\* C7: when attempt j succeeds the call resolves with the body of that
\* attempt; it is the call's last attempt (j <= retries + 1) and only the
\* j - 1 failures before it were followed by a backoff wait.
C7_SuccessShortCircuits ==
  \A r \in Req :
    \A j \in 1..Len(outcomes[r]) :
      outcomes[r][j].ok =>
        /\ j = Len(outcomes[r])
        /\ j <= retries[client[r]] + 1
        /\ \A k \in 1..(j - 1) : RetryableFailure(outcomes[r][k])
        /\ pc[r] = "resolved"
        /\ result[r] = Resolved(Body(r, j - 1))
        /\ Sent(r) = j
        /\ Len(backoffs[r]) = j - 1

\* the second of three allowed attempts succeeded
C7_Witness ==
  \E r \in Req :
    /\ retries[client[r]] = 2
    /\ Len(outcomes[r]) = 2
    /\ RetryableFailure(outcomes[r][1])
    /\ outcomes[r][2].ok
    /\ pc[r] = "resolved"

\* ------------------------------------------------------------------------
\* C8
\* ------------------------------------------------------------------------
\* C8: a call that fails after at least one attempt rejects with the
\* classified error of its last attempt: status, message and details are
\* those of the final attempt.
C8_LastErrorSurfaced ==
  \A r \in Req :
    (pc[r] = "rejected" /\ Len(outcomes[r]) >= 1) =>
      LET last == outcomes[r][Len(outcomes[r])]
      IN  /\ ~last.ok
          /\ result[r].kind = "thrown"
          /\ result[r].error.kind = "error"
          /\ result[r].error.status = SurfacedStatus(last)
          /\ result[r].error.details = (IF last.response THEN last.data ELSE NoData)
          /\ result[r].error.message =
               (IF last.response /\ last.status = 429 THEN RateLimitMessage
                ELSE IF last.response /\ last.status = 404 THEN NotFoundMessage
                ELSE IF last.response /\ last.status >= 500 THEN ServerErrorMessage
                ELSE last.message)

\* 503, then no response, then 429: the call has rejected
C8_Witness ==
  \E r \in Req :
    /\ pc[r] = "rejected"
    /\ Len(outcomes[r]) = 3
    /\ outcomes[r][1].status = 503
    /\ ~outcomes[r][2].response
    /\ outcomes[r][3].status = 429

\* ------------------------------------------------------------------------
\* C9
\* ------------------------------------------------------------------------
\* C9: an attempt that obtains no response is classified with status 0; it
\* is followed by a backoff wait and a retry unless it was the last allowed
\* attempt, and then the call rejects with status 0.
C9_NoResponseRetryable ==
  \A r \in Req :
    LET c == client[r]
        n == Len(outcomes[r])
    IN  \A k \in 1..n :
          (~outcomes[r][k].ok /\ ~outcomes[r][k].response) =>
            /\ k = n => (lastError[r].kind = "error" /\ lastError[r].status = 0)
            /\ k - 1 < retries[c] =>
                 /\ Len(backoffs[r]) >= k
                 /\ k = n => Pending(r)
                 /\ k < n => Sent(r) >= k + 1
            /\ k - 1 = retries[c] =>
                 /\ k = n
                 /\ pc[r] = "rejected"
                 /\ result[r] = Thrown(lastError[r])
                 /\ result[r].error.status = 0

\* a no-response failure was retried, and the last allowed attempt got no
\* response either
C9_Witness ==
  \E r \in Req :
    /\ retries[client[r]] = 1
    /\ Len(outcomes[r]) = 2
    /\ ~outcomes[r][1].response
    /\ ~outcomes[r][2].response
    /\ Sent(r) = 2
    /\ pc[r] = "rejected"

\* ------------------------------------------------------------------------
\* C10
\* ------------------------------------------------------------------------
\* C10 as stated: the classified status is 0 without a response and the HTTP
\* status otherwise; the message is the fixed text for 429, 404 and >= 500
\* and the raw failure message for every other status.
C10_ClassifierRawMessage ==
  sleeperError # Undefined =>
    /\ sleeperError.status = SurfacedStatus(rawError)
    /\ sleeperError.message =
         (IF rawError.response /\ rawError.status = 429 THEN RateLimitMessage
          ELSE IF rawError.response /\ rawError.status = 404 THEN NotFoundMessage
          ELSE IF rawError.response /\ rawError.status >= 500 THEN ServerErrorMessage
          ELSE rawError.message)

\* C10 amended: ... and, for every other status, the raw failure message when
\* the failure has a non-empty one and the fixed text "Unknown error" when it
\* has none.
C10_ClassifierMessage ==
  sleeperError # Undefined =>
    /\ sleeperError.status = SurfacedStatus(rawError)
    /\ sleeperError.message =
         (IF rawError.response /\ rawError.status = 429 THEN RateLimitMessage
          ELSE IF rawError.response /\ rawError.status = 404 THEN NotFoundMessage
          ELSE IF rawError.response /\ rawError.status >= 500 THEN ServerErrorMessage
          ELSE IF rawError.message = "" THEN UnknownErrorMessage
          ELSE rawError.message)

\* a status-401 failure without a message has been classified
C10_Witness ==
  /\ sleeperError # Undefined
  /\ rawError.response
  /\ rawError.status = 401
  /\ rawError.message = ""
  /\ sleeperError.status = 401
  /\ sleeperError.message = UnknownErrorMessage

\* ------------------------------------------------------------------------
\* C11
\* ------------------------------------------------------------------------
\* C11: the details of a classified error are the raw response body when a
\* response was received for the attempt and are absent when none was.
C11_DetailsAreResponseBody ==
  sleeperError # Undefined =>
    /\ rawError.response => sleeperError.details = rawError.data
    /\ ~rawError.response => sleeperError.details = NoData

\* a 404 response with a body has been classified
C11_Witness ==
  /\ sleeperError # Undefined
  /\ rawError.response
  /\ rawError.status = 404
  /\ rawError.data = "body"
  /\ sleeperError.details = "body"

\* ------------------------------------------------------------------------
\* C12
\* ------------------------------------------------------------------------
\* C12: every attempt, retries included, passes the pacer before it is sent:
\* lastRequestTime is the time of the latest dispatch of the instance, the
\* k-th attempt of a call is the one with index k - 1, it read lastRequestTime
\* after the call's previous attempt was sent, and it is sent at least
\* minRequestInterval after the value it read; so a retry starts at least
\* minRequestInterval after the call's previous attempt even when its backoff
\* wait is shorter, and never before its backoff wait has elapsed.
C12_EveryAttemptPaced ==
  /\ \A c \in Clients :
       LET S == SendsOf(c)
       IN  lastRequestTime[c] = (IF Len(S) = 0 THEN 0 ELSE S[Len(S)].at)
  /\ \A r \in Req :
       LET T == SendsBy(r)
       IN  \A k \in 1..Len(T) :
             /\ T[k].att = k - 1
             /\ T[k].at >= T[k].seen + minRequestInterval
             /\ k > 1 =>
                  /\ T[k].seen >= T[k - 1].at
                  /\ T[k].at >= T[k - 1].at + minRequestInterval
                  /\ T[k].at >= T[k - 1].at + backoffs[r][k - 1]

\* a retry whose backoff wait was 30 was sent 60 after the first attempt
C12_Witness ==
  \E r \in Req :
    LET T == SendsBy(r)
    IN  /\ Len(T) >= 2
        /\ backoffs[r][1] = 30
        /\ T[2].at = T[1].at + minRequestInterval

\* ------------------------------------------------------------------------
\* C13
\* ------------------------------------------------------------------------
\* C13: the pacer permits one request per interval and never a burst, and
\* idling earns no capacity: the dispatch that follows a dispatch made after
\* an idle period (the first one of the instance, or one made at least
\* minRequestInterval after the one before it) is at least
\* minRequestInterval later.
C13_NoBurstAfterIdle ==
  \A c \in Clients :
    LET S == SendsOf(c)
    IN  \A i \in 1..(Len(S) - 1) :
          (i = 1 \/ S[i].at - S[i - 1].at >= minRequestInterval)
            => S[i + 1].at - S[i].at >= minRequestInterval

\* ------------------------------------------------------------------------
\* C14
\* ------------------------------------------------------------------------
\* the limit the pacer is to keep: RateLimitRequests per RateLimitWindow ms
RateLimitRequests == 1000
RateLimitWindow == 60000

C15_SentAfterValueRead ==
  \A i \in 1..Len(sendLog) :
    sendLog[i].at - sendLog[i].seen >= minRequestInterval

\* two concurrent calls read the same lastRequestTime, waited, and both
\* have been sent
C15_Witness ==
  /\ overlapped["A"]
  /\ \E i, j \in 1..Len(sendLog) :
       /\ i < j
       /\ sendLog[i].req # sendLog[j].req
       /\ sendLog[i].seen = sendLog[j].seen
       /\ sendLog[i].seen >= StartTime
       /\ sendLog[i].at = sendLog[j].at

\* ------------------------------------------------------------------------
\* C16
\* ------------------------------------------------------------------------
\* C16: getClientConfig returns the configuration the HTTP client uses: the
\* returned baseURL, timeout, retries and retryDelay are the supplied values,
\* or the defaults for the omitted ones.
C16_ConfigReported ==
  shownConfig # Undefined =>
    /\ shownConfig.baseURL = axiosConfig.baseURL
    /\ shownConfig.timeout = axiosConfig.timeout
    /\ shownConfig.retries = retries["A"]
    /\ shownConfig.retryDelay = retryDelay["A"]
    /\ shownConfig.retries = OrDefault(sdkConfig.retries, DefaultRetries)

\* ------------------------------------------------------------------------
\* C17
\* ------------------------------------------------------------------------
\* C17: testConnection never rejects: it resolves to true when its
\* getSportState request has resolved and to false when that request has
\* rejected, whatever it rejected with.
C17_TestConnectionBoolean ==
  operation = "testConnection" =>
    /\ opResult # NoResult =>
         /\ opResult.kind = "value"
         /\ pc[1] \in {"resolved", "rejected"}
         /\ opResult.value = (pc[1] = "resolved")
    /\ (opResult = NoResult /\ Settled(1)) => ServiceDue

\* the request failed after a retry and testConnection has resolved to false
C17_Witness ==
  /\ operation = "testConnection"
  /\ pc[1] = "rejected"
  /\ Len(outcomes[1]) >= 2
  /\ opResult = Resolved(FALSE)

\* ------------------------------------------------------------------------
\* C18
\* ------------------------------------------------------------------------
\* C18: a fetch-then-filter accessor and an aggregate accessor give no
\* partial result and do not translate errors: once one of the accessor's
\* fetches has rejected the accessor rejects, with exactly what that fetch
\* rejected with, and it resolves only when all of its fetches resolved.
C18_NoPartialResult ==
  operation \in {"getPlayersByPosition", "getLeagueData"} =>
    LET S == OpCalls(operation)
    IN  /\ opResult # NoResult =>
             /\ (\E r \in S : pc[r] = "rejected") =>
                   /\ opResult.kind = "thrown"
                   /\ \E r \in S : pc[r] = "rejected" /\ opResult = result[r]
             /\ opResult.kind = "value" =>
                   \A r \in S : pc[r] = "resolved"
             /\ opResult.kind = "thrown" =>
                   \E r \in S : pc[r] = "rejected" /\ opResult = result[r]
        /\ (opResult = NoResult /\ \E r \in S : pc[r] = "rejected") => ServiceDue

\* getLeagueData: one fetch resolved, another one was rejected with a
\* classified error, and getLeagueData has rejected with that error
C18_Witness ==
  /\ operation = "getLeagueData"
  /\ \E r, q \in OpCalls(operation) :
       /\ pc[r] = "resolved"
       /\ pc[q] = "rejected"
       /\ result[q].error # Undefined
       /\ opResult = result[q]

\* ------------------------------------------------------------------------
\* C19
\* ------------------------------------------------------------------------
\* the pieces of str between the occurrences of the character sep
RECURSIVE SplitOn(_, _)
SplitOn(str, sep) ==
  IF \A i \in DOMAIN str : str[i] # sep THEN <<str>>
  ELSE LET i == CHOOSE k \in DOMAIN str :
                  str[k] = sep /\ \A j \in 1..(k - 1) : str[j] # sep
       IN  <<SubSeq(str, 1, i - 1)>> \o SplitOn(SubSeq(str, i + 1, Len(str)), sep)

Count(str, ch) == Cardinality({i \in DOMAIN str : str[i] = ch})

ExampleParams ==
  << <<Str(<<"a">>), NumberValue(1)>>, <<Str(<<"b">>), UndefinedValue>>,
     <<Str(<<"c">>), StringValue(<<"x", " ", "y">>)>> >>

ExampleQuery == <<"?", "a", "=", "1", "&", "c", "=", "x", "%", "2", "0", "y">>

\* C19: buildQueryString returns the empty string when no parameter has a
\* defined value; otherwise it returns "?" followed by the key=value pairs
\* of the defined parameters, in the order of the entries, each key and
\* value percent-encoded (no raw space, "&" or "=" inside a pair), joined by
\* "&".  {a: 1, b: undefined, c: 'x y'} gives "?a=1&c=x%20y".
C19_QueryString ==
  queryString # Undefined =>
    LET defined == SelectSeq(params, IsDefined)
        query == queryString.value
    IN  /\ defined = <<>> => query = <<>>
        /\ defined # <<>> =>
             /\ Head(query) = "?"
             /\ LET pairs == SplitOn(Tail(query), "&")
                IN  /\ Len(pairs) = Len(defined)
                    /\ \A i \in DOMAIN defined :
                         LET kv == SplitOn(pairs[i], "=")
                         IN  /\ Len(kv) = 2
                             /\ kv[1] = encodeURIComponent(defined[i][1])
                             /\ kv[2] = encodeURIComponent(String(defined[i][2]))
             /\ Count(query, " ") = 0
             /\ Count(query, "?") = 1
        /\ params = ExampleParams => query = ExampleQuery

\* the call of the example: an undefined value between two defined ones, one
\* of them with a character to encode
C19_Witness ==
  /\ params = ExampleParams
  /\ queryString = Returned(ExampleQuery)

\* ------------------------------------------------------------------------
\* C20
\* ------------------------------------------------------------------------
\* the times at which instance c has dispatched so far
SendTimesOf(c) == {SendsOf(c)[i].at : i \in DOMAIN SendsOf(c)}

\* C20: the pacing state belongs to one client instance.  An instance's
\* lastRequestTime is the time of its own latest dispatch (0 before the
\* first), whatever the other instance did; the value a dispatch read is 0
\* or the time of an earlier dispatch of its own instance; and a request
\* that waits, waits for minRequestInterval after a dispatch of its own
\* instance.
C20_PacingStatePerInstance ==
  /\ \A c \in Clients :
       /\ SendsOf(c) = <<>> => lastRequestTime[c] = 0
       /\ SendsOf(c) # <<>> =>
            lastRequestTime[c] = SendsOf(c)[Len(SendsOf(c))].at
  /\ \A i \in DOMAIN sendLog :
       LET c == client[sendLog[i].req]
       IN  \/ sendLog[i].seen = 0
           \/ \E j \in 1..(i - 1) :
                /\ client[sendLog[j].req] = c
                /\ sendLog[j].at = sendLog[i].seen
  /\ \A r \in Req :
       pc[r] = "pacing" =>
         /\ seenLast[r] \in SendTimesOf(client[r])
         /\ wakeAt[r] = seenLast[r] + minRequestInterval

\* instance B dispatched its first request less than minRequestInterval
\* after a dispatch of instance A, having read 0, and instance A's
\* lastRequestTime is still the time of A's own dispatch
C20_Witness ==
  \E i, j \in DOMAIN sendLog :
    /\ i < j
    /\ client[sendLog[i].req] = "A"
    /\ client[sendLog[j].req] = "B"
    /\ sendLog[j].at > sendLog[i].at
    /\ sendLog[j].at - sendLog[i].at < minRequestInterval
    /\ sendLog[j].seen = 0
    /\ SendTimesOf("A") = {sendLog[i].at}
    /\ lastRequestTime["A"] = sendLog[i].at
    /\ lastRequestTime["B"] = sendLog[j].at

\* ------------------------------------------------------------------------
\* C21
\* ------------------------------------------------------------------------
Suspended(r) == pc[r] \in {"pacing", "backoff"}

\* C21: the pacing wait and the backoff wait are cooperative.  While a call
\* is suspended in either, every other call of the same instance can take
\* its next step: an attempt in flight can complete, and a call whose own
\* timer is due can be dispatched.
C21_SuspensionsCooperative ==
  \A r \in Req :
    Suspended(r) =>
      \A q \in Req \ {r} :
        client[q] = client[r] =>
          /\ pc[q] = "inflight" => ENABLED RespondSuccess(q)
          /\ (pc[q] = "pacing" /\ now >= wakeAt[q]) => ENABLED PacingResume(q)
          /\ (pc[q] = "backoff" /\ now >= wakeAt[q]) => ENABLED BackoffResume(q)

\* call r entered a backoff wait and is still in it; call q of the same
\* instance was dispatched after the wait began and has already resolved
C21_Witness ==
  \E r, q \in Req :
    /\ r # q
    /\ client[q] = client[r]
    /\ pc[r] = "backoff"
    /\ BackoffDelay(client[r], attempt[r]) > 0
    /\ pc[q] = "resolved"
    /\ \E i \in DOMAIN sendLog :
         /\ sendLog[i].req = q
         /\ sendLog[i].at > wakeAt[r] - BackoffDelay(client[r], attempt[r])

\* ------------------------------------------------------------------------
\* C22
\* ------------------------------------------------------------------------
\* C22: when getMatchupsForWeekRange resolves, the keys of its result are
\* exactly the weeks startWeek..endWeek and each week is mapped to what the
\* request made for that week resolved with, in whatever order the requests
\* were dispatched and completed.
C22_WeekToItsMatchups ==
  (operation = "getMatchupsForWeekRange" /\ opResult # NoResult
     /\ opResult.kind = "value") =>
    /\ DOMAIN opResult.value = weekRange.startWeek..weekRange.endWeek
    /\ \A w \in weekRange.startWeek..weekRange.endWeek :
         LET r == w - weekRange.startWeek + 1
         IN  /\ pc[r] = "resolved"
             /\ opResult.value[w] = result[r].value
             /\ opResult.value[w][1] = r

\* three weeks; the request for the last week was dispatched before the
\* request for the second, and the method has resolved
C22_Witness ==
  /\ operation = "getMatchupsForWeekRange"
  /\ weekRange = [startWeek |-> 2, endWeek |-> 4]
  /\ opResult # NoResult
  /\ opResult.kind = "value"
  /\ \E i, j \in DOMAIN sendLog :
       i < j /\ sendLog[i].req = 3 /\ sendLog[j].req = 2

\* ------------------------------------------------------------------------
\* C23
\* ------------------------------------------------------------------------
\* C23: a limit-taking player filter returns at most limit players, each of
\* them one of the players fetched, none twice, and each satisfying the
\* filter's condition.
C23_AtMostLimitAllMatching ==
  playerResult # Undefined =>
    LET returned == playerResult.value
    IN  /\ Len(returned) <= playerQuery.limit
        /\ \A i \in DOMAIN returned :
             /\ Satisfies(playerQuery, returned[i])
             /\ \E k \in DOMAIN playerQuery.allPlayers :
                  playerQuery.allPlayers[k] = returned[i]
             /\ \A j \in DOMAIN returned : returned[i] = returned[j] => i = j

\* more players satisfy the condition than the limit allows, one player does
\* not satisfy it, and the filter has returned limit players
C23_Witness ==
  /\ playerResult # Undefined
  /\ playerQuery.limit >= 1
  /\ Len(playerResult.value) = playerQuery.limit
  /\ Cardinality({k \in DOMAIN playerQuery.allPlayers :
                    Satisfies(playerQuery, playerQuery.allPlayers[k])})
       > playerQuery.limit
  /\ \E k \in DOMAIN playerQuery.allPlayers :
       ~Satisfies(playerQuery, playerQuery.allPlayers[k])

\* ------------------------------------------------------------------------
\* C24
\* ------------------------------------------------------------------------
\* C24: getCurrentPick returns null when the draft's status is 'complete'
\* or when at least teams * rounds picks have been made, and a current-pick
\* record in every other case.
C24_NullIffDraftOver ==
  currentPick # Undefined =>
    ((currentPick.value = Null) <=>
       \/ draftState.status = "complete"
       \/ draftState.picks >= draftState.teams * draftState.rounds)

\* a draft still marked as drafting in which every pick has been made
C24_Witness ==
  /\ currentPick = Returned(Null)
  /\ draftState.status = "drafting"
  /\ draftState.teams >= 2
  /\ draftState.rounds >= 2
  /\ draftState.picks = draftState.teams * draftState.rounds

\* ------------------------------------------------------------------------
\* C26
\* ------------------------------------------------------------------------
\* C26: with n = picks made + 1, a current-pick record has round =
\* ceil(n / teams), the least k with k * teams >= n, and pick =
\* ((n - 1) mod teams) + 1, turned into teams - pick + 1 in an even round of
\* a snake draft; it has a rosterId exactly when slot_to_roster_id has an
\* entry for that pick, and then it is that entry.
C26_RoundPickRoster ==
  (currentPick # Undefined /\ currentPick.value # Null) =>
    LET n == draftState.picks + 1
        teams == draftState.teams
        got == currentPick.value
        straight == ((n - 1) % teams) + 1
        slots == draftState.slot_to_roster_id
    IN  /\ got.round * teams >= n
        /\ (got.round - 1) * teams < n
        /\ got.pick = (IF draftState.type = "snake" /\ got.round % 2 = 0
                       THEN teams - straight + 1 ELSE straight)
        /\ ("rosterId" \in DOMAIN got) <=>
             (slots.present /\ got.pick \in DOMAIN slots.map)
        /\ ("rosterId" \in DOMAIN got) => got.rosterId = slots.map[got.pick]

\* an even round of a snake draft in which the reversed pick differs from
\* the straight one, with a roster id for the reversed slot and none for the
\* straight one
C26_Witness ==
  /\ currentPick # Undefined
  /\ currentPick.value # Null
  /\ draftState.type = "snake"
  /\ currentPick.value.round = 2
  /\ currentPick.value.pick # (draftState.picks % draftState.teams) + 1
  /\ "rosterId" \in DOMAIN currentPick.value
  /\ (draftState.picks % draftState.teams) + 1
       \notin DOMAIN draftState.slot_to_roster_id.map

\* ------------------------------------------------------------------------
\* C30
\* ------------------------------------------------------------------------
\* C30: every current-pick record has 1 <= round <= rounds and
\* 1 <= pick <= teams.
C30_RoundAndPickInRange ==
  (currentPick # Undefined /\ currentPick.value # Null) =>
    /\ 1 <= currentPick.value.round
    /\ currentPick.value.round <= draftState.rounds
    /\ 1 <= currentPick.value.pick
    /\ currentPick.value.pick <= draftState.teams

\* the last pick of a snake draft whose last round is even: the round is
\* rounds and the pick, reversed, is 1
C30_Witness ==
  /\ currentPick # Undefined
  /\ currentPick.value # Null
  /\ draftState.type = "snake"
  /\ draftState.teams >= 2
  /\ draftState.picks = draftState.teams * draftState.rounds - 1
  /\ currentPick.value.round = draftState.rounds
  /\ draftState.rounds % 2 = 0
  /\ currentPick.value.pick = 1

\* ------------------------------------------------------------------------
\* C25
\* ------------------------------------------------------------------------
\* what executeWithRetry keeps for call r: its position, its loop counter,
\* its lastError, its timer, the lastRequestTime value it read, its outcome,
\* and the attempts and backoff waits it has gone through
Local(r) ==
  <<pc[r], attempt[r], lastError[r], wakeAt[r], seenLast[r], result[r],
    outcomes[r], backoffs[r]>>

\* C25: the attempt counter and the backoff schedule belong to the call.  A
\* step of one call (its dispatch, its failure, its retry, the start or the
\* end of one of its waits) changes nothing that executeWithRetry keeps for
\* any other call, and never changes retries or retryDelay; what one call
\* changes for another is lastRequestTime only.
C25_RetryStateLocal ==
  [][ /\ retries' = retries
      /\ retryDelay' = retryDelay
      /\ \A r, q \in Req :
           (r # q /\ Local(r)' # Local(r)) => Local(q)' = Local(q) ]_vars

\* two calls of one instance failed and retried in turn, and each of them
\* used its retries + 1 attempts and its own backoff schedule
C25_Witness ==
  \E r, q \in Req :
    /\ r # q
    /\ client[r] = client[q]
    /\ retries[client[r]] = 1
    /\ retryDelay[client[r]] = 30
    /\ pc[r] = "rejected" /\ pc[q] = "rejected"
    /\ Len(outcomes[r]) = 2 /\ Len(outcomes[q]) = 2
    /\ backoffs[r] = <<30>> /\ backoffs[q] = <<30>>
    /\ \E i, j, k \in DOMAIN sendLog :
         /\ i < j /\ j < k
         /\ sendLog[i].req = r /\ sendLog[j].req = q /\ sendLog[k].req = r

\* ------------------------------------------------------------------------
\* C27
\* ------------------------------------------------------------------------
\* C27: the attempts of one call are strictly sequential.  A call has at
\* most one attempt that has not settled, and that only while it is in
\* flight; every attempt before its latest one settled as a failure; a call
\* enters a backoff wait at a failure, for the delay of that attempt, and
\* leaves it, towards the next attempt, only when that delay has elapsed.
C27_AttemptsSequential ==
  /\ [](\A r \in Req :
          /\ Sent(r) = Len(outcomes[r]) + (IF pc[r] = "inflight" THEN 1 ELSE 0)
          /\ \A k \in DOMAIN outcomes[r] : k < Sent(r) => ~outcomes[r][k].ok
          /\ \A k \in 1..(Sent(r) - 1) :
               /\ k \in DOMAIN backoffs[r]
               /\ SendsBy(r)[k + 1].at >= SendsBy(r)[k].at + backoffs[r][k])
  /\ [][\A r \in Req :
          /\ (pc[r] # "backoff" /\ pc'[r] = "backoff") =>
               /\ pc[r] = "inflight"
               /\ Len(outcomes'[r]) = Sent(r)
               /\ ~outcomes'[r][Sent(r)].ok
               /\ wakeAt'[r] = now + backoffs'[r][Sent(r)]
          /\ (pc[r] = "backoff" /\ pc'[r] # "backoff") => now >= wakeAt[r]
          /\ Sent(r)' > Sent(r) => pc[r] # "inflight"]_vars

\* a call made three attempts, 30 ms and then 60 ms after a failure, and its
\* third attempt is in flight
C27_Witness ==
  \E r \in Req :
    /\ retryDelay[client[r]] = 30
    /\ Sent(r) = 3
    /\ pc[r] = "inflight"
    /\ backoffs[r] = <<30, 60>>
    /\ SendsBy(r)[2].at - SendsBy(r)[1].at >= 30
    /\ SendsBy(r)[3].at - SendsBy(r)[2].at >= 60

\* ------------------------------------------------------------------------
\* C28
\* ------------------------------------------------------------------------
\* C28: if every attempt eventually settles and every timer eventually
\* fires, every call that was made eventually resolves or rejects: no call
\* stays pending for ever.  (A call that was made is pending or settled, and
\* a settled call stays settled.)
C28_EveryCallSettles ==
  \A r \in Req : []<>(~Pending(r))

\* a call was rejected after it had used every attempt it is given, each of
\* them failed with a retryable error
C28_Witness ==
  \E r \in Req :
    /\ retries[client[r]] = MaxRetries
    /\ pc[r] = "rejected"
    /\ Sent(r) = MaxRetries + 1
    /\ \A k \in DOMAIN outcomes[r] : RetryableFailure(outcomes[r][k])

\* ------------------------------------------------------------------------
\* C29
\* ------------------------------------------------------------------------
\* C29: for every retries value the constructor accepts, below 0 included, a
\* call that has settled has made at least one attempt, and a call that was
\* rejected was rejected with the classified error of one of its own
\* attempts.
C29_AtLeastOneAttempt ==
  \A r \in Req :
    Settled(r) =>
      /\ Sent(r) >= 1
      /\ pc[r] = "rejected" =>
           /\ result[r].kind = "thrown"
           /\ result[r].error # Undefined
           /\ \E k \in DOMAIN outcomes[r] :
                ~outcomes[r][k].ok /\ result[r].error = Classify(outcomes[r][k])

====
